---- MODULE Spec2Model ----
(***************************************************************************)
(* Model of package rotation (Rotator.Write, Rotator.Close,                *)
(* Rotator.rotate).  The directory is a function from slot numbers to file *)
(* contents: slot 0 is the live file at path, slot i >= 1 is the backup    *)
(* path-i.  Every file-system call can fail, as the operating system       *)
(* allows; a failure is a nondeterministic outcome of the step.            *)
(***************************************************************************)
EXTENDS Integers, Sequences, FiniteSets, TLC

\* ---- bounds of the model ----
NumProcs == 2          \* concurrent callers of Write and Close
MaxBackupsCfg == 2     \* maxBackups is configured in 0..MaxBackupsCfg
MaxPayload == 3        \* longest payload handed to Write
MaxInitSize == 2       \* longest file found at path on start
MaxData == 2           \* most bytes written to a safe.File
NumUsers == 2          \* user names a request can carry
NumPasswords == 2      \* passwords a request can carry or lookup can return
maxSize == 2           \* Rotator.maxSize, the rotation threshold

Procs == 1..NumProcs
Slots == 0..MaxBackupsCfg
\* Write never looks at the bytes it is given: one byte value stands for all.
Bytes == {1}

\* A slot holding no file.  Real contents are sequences over Bytes.
NoFile == <<-1>>
\* r.file: nil, a handle on a file that no longer has a name, or a handle
\* on the file that currently sits in a slot.
nil == -1
Unlinked == -2

Exists(c) == c # NoFile
Content(c) == IF Exists(c) THEN c ELSE <<>>
FileSize(c) == Len(Content(c))

\* Payloads and initial contents: runs of one byte value.
Run(v, n) == [k \in 1..n |-> v]
Payloads == {Run(v, n) : v \in Bytes, n \in 0..MaxPayload}
InitContents == {Run(1, n) : n \in 0..MaxInitSize}

Min(x, y) == IF x < y THEN x ELSE y
Take(s, n) == SubSeq(s, 1, Min(n, Len(s)))

VARIABLES
    fs,          \* directory: slot -> content or NoFile
    nOpen,       \* file handles open in the operating system
    maxBackups,  \* Rotator.maxBackups
    file,        \* Rotator.file
    size,        \* Rotator.size
    lock,        \* Rotator.lock is held
    pc,          \* position of each caller
    op,          \* the call a caller is in: "none", "Write", "Close"
    b,           \* Write's argument
    fi,          \* Write's fi.Size() from os.Stat
    idx,         \* rotate's loop variable i
    ret,         \* the returned (n, err)
    pre,         \* directory, handle and size when the call took the lock
    rot,         \* rotation in this call: "none", "running", "ok", "failed"
    fault,       \* some file-system call of this call returned an error
    retiring,    \* content of the live file when this call entered rotate
    rotFailed,   \* some rotation has returned an error
    renameFailed,\* some rotation has returned a rename error
    retired,     \* while no rotation has failed: the contents retired by
                 \* the rotations, newest first, the newest maxBackups of them
    resume,      \* writes since an existing file was reopened
    prevRotFail, \* a Write failed in its rotation and no Write has since
                 \* run without a file-system error
    closedLast,  \* the last call that returned was a Close
    retry        \* the last call was a Write that failed in its rotation,
                 \* or the same payload is being written again: the
                 \* directory a rotation that succeeded would have left
                 \* after the Write, and whether the failed one had moved
                 \* a file

\* the Rotator and the directory
disk == <<fs, nOpen>>
rotator == <<file, size>>
\* what a caller holds during a call
locals == <<op, b, fi, idx, pre, retiring>>
\* what the calls so far have done
history == <<rotFailed, renameFailed, retired, resume, prevRotFail, closedLast,
             retry>>


\* package safe: one File, made by Create(name)
VARIABLES
    original,    \* the file at f.originalName: its content, or NoFile
    temp,        \* the temporary file at f.Name(): its content, or NoFile
    committed,   \* File.committed
    closed,      \* File.closed
    open,        \* the embedded *os.File still holds its descriptor
    fpc,         \* where the caller is in Commit or Close
    fcall,       \* the method being called: "none", "Commit", "Close"
    err,         \* the local err of the call
    result,      \* the error the call returns
    entry,       \* the File and its two files when the call began
    before,      \* the file at originalName when the File was created
    renamed,     \* os.Rename(name, f.originalName) has succeeded
    aborted,     \* a Commit has failed, or Close has run without a Commit
    removeFailed \* os.Remove(name) has failed

safeFile == <<original, temp, committed, closed, open, fpc, fcall, err, result,
              entry, before, renamed, aborted, removeFailed>>

\* package xhttp: one handler wrapped by BasicAuth.Wrap, serving one
\* request at a time
VARIABLES
    realm,           \* BasicAuth.realm
    lookup,          \* BasicAuth.lookup, by (user, realm)
    hpc,             \* where ServeHTTP is
    req,             \* the Authorization header of the request
    invoked,         \* hw.handler.ServeHTTP has been called for the request
    wwwAuthenticate, \* the WWW-Authenticate header of the response
    status           \* the status of the response, 0 while none is written

basicAuth == <<realm, lookup, hpc, req, invoked, wwwAuthenticate, status>>

Users == 1..NumUsers
Passwords == 1..NumPasswords
Realms == {"private", "admin"}
\* The Authorization header: none, or a scheme and credentials that
\* either decode to user:password or do not.
NoHeader == [scheme |-> "none", wellFormed |-> FALSE, user |-> 0, pw |-> 0]
Headers ==
    {NoHeader}
    \cup {[scheme |-> s, wellFormed |-> FALSE, user |-> 0, pw |-> 0] :
              s \in {"Basic", "Bearer"}}
    \cup [scheme : {"Basic", "Bearer"}, wellFormed : {TRUE},
          user : Users, pw : Passwords]

\* what no call on the Rotator changes: its configuration, and the objects
\* of the other packages
fixed == <<maxBackups, safeFile, basicAuth>>

vars == <<fs, nOpen, maxBackups, file, size, lock, pc, op, b, fi, idx, ret,
          pre, rot, fault, retiring, rotFailed, renameFailed, retired, resume,
          prevRotFail, closedLast, retry, safeFile, basicAuth>>

NoRet == [n |-> 0, err |-> FALSE]
NoPre == [fs |-> [s \in Slots |-> NoFile], file |-> nil, size |-> 0]
NoRetry == [on |-> FALSE, want |-> [s \in Slots |-> NoFile], moved |-> FALSE]
NoEntry == [original |-> NoFile, temp |-> NoFile, committed |-> FALSE]
NoResume == [on |-> FALSE, base |-> [s \in Slots |-> NoFile], wr |-> <<>>, rots |-> 0]

\* The File after safe.Create(name) where the file at name is c: an empty
\* temporary file, open, next to it.
Created(c) ==
    /\ original = c
    /\ before = c
    /\ temp = <<>>
    /\ committed = FALSE
    /\ closed = FALSE
    /\ open = TRUE
    /\ fpc = "idle"
    /\ fcall = "none"
    /\ err = "nil"
    /\ result = "nil"
    /\ entry = NoEntry
    /\ renamed = FALSE
    /\ aborted = FALSE
    /\ removeFailed = FALSE

\* The Rotator after New(path, maxSize, maxBackups), and the directory.
NewRotator ==
    /\ \E c \in InitContents \cup {NoFile} :
           fs = [s \in Slots |-> IF s = 0 THEN c ELSE NoFile]
    /\ nOpen = 0
    /\ maxBackups \in 0..MaxBackupsCfg
    /\ file = nil
    /\ size = 0
    /\ lock = FALSE
    /\ pc = [p \in Procs |-> "idle"]
    /\ op = [p \in Procs |-> "none"]
    /\ b = [p \in Procs |-> <<>>]
    /\ fi = [p \in Procs |-> 0]
    /\ idx = [p \in Procs |-> 0]
    /\ ret = [p \in Procs |-> NoRet]
    /\ pre = [p \in Procs |-> NoPre]
    /\ rot = [p \in Procs |-> "none"]
    /\ fault = [p \in Procs |-> FALSE]
    /\ retiring = [p \in Procs |-> NoFile]
    /\ rotFailed = FALSE
    /\ renameFailed = FALSE
    /\ retired = <<>>
    /\ resume = NoResume
    /\ prevRotFail = FALSE
    /\ closedLast = FALSE
    /\ retry = NoRetry

\* The wrapper after NewBasicAuth(rl, lk).Wrap(handler), no request in.
Wrapped(rl, lk) ==
    /\ realm = rl
    /\ lookup = lk
    /\ hpc = "idle"
    /\ req = NoHeader
    /\ invoked = FALSE
    /\ wwwAuthenticate = ""
    /\ status = 0

\* A wrapper that serves no request.
IdleAuth == Wrapped("private", [k \in Users \X Realms |-> 1])

Init == NewRotator /\ Created(NoFile) /\ IdleAuth

\* ---- file-system primitives ----

\* os.Rename(old, new) on the directory.
Rename(f, old, new) == [f EXCEPT ![new] = f[old], ![old] = NoFile]
\* An open handle follows its file through a rename and loses the name when
\* another file is renamed over it.
RenameHandle(h, old, new) ==
    IF h = old THEN new ELSE IF h = new THEN Unlinked ELSE h
\* A remove that archives the live file as path-1 instead of deleting it.
RemoveArchive(f, s) ==
    IF s = 0 THEN [f EXCEPT ![1] = f[0], ![0] = NoFile] ELSE [f EXCEPT ![s] = NoFile]

\* os.Remove(name).
Remove(f, s) == [f EXCEPT ![s] = NoFile]
RemoveHandle(h, s) == IF h = s THEN Unlinked ELSE h
\* os.Create(name): creates the file or truncates the one that is there.
Create(f, s) == [f EXCEPT ![s] = <<>>]
\* (*os.File).Write of the first n bytes of w through handle h.
Appended(c, w, n) == c \o SubSeq(w, 1, n)
WriteThrough(f, h, w, n) ==
    IF h \in Slots THEN [f EXCEPT ![h] = Appended(@, w, n)] ELSE f

\* ---- the lock ----

\* A Lock() that never waits.
CanLockUnguarded == TRUE

\* sync.Mutex: Lock() returns only when no caller holds the lock.
CanLock == ~lock

\* Leaves the call with result (n, e); the lock is released by Return.
Done(p, n, e) ==
    /\ pc' = [pc EXCEPT ![p] = "done"]
    /\ ret' = [ret EXCEPT ![p] = [n |-> n, err |-> e]]
    /\ fault' = [fault EXCEPT ![p] = @ \/ e]

Goto(p, l) ==
    /\ pc' = [pc EXCEPT ![p] = l]
    /\ UNCHANGED <<ret, fault>>

\* ---- Rotator.Write ----

\* A caller invokes Write: r.lock.Lock() returns once the lock is free.
WriteLock(p) ==
    /\ pc[p] = "idle"
    /\ CanLock
    /\ lock' = TRUE
    /\ op' = [op EXCEPT ![p] = "Write"]
    /\ pre' = [pre EXCEPT ![p] = [fs |-> fs, file |-> file, size |-> size]]
    /\ Goto(p, "w_begin")
    /\ UNCHANGED <<disk, fixed, rotator, b, fi, idx, retiring, rot, history>>

\* A Write that resets r.size when the stat fails.
WriteStatReset(p) ==
    /\ pc[p] = "w_begin"
    /\ file = nil
    /\ \/ /\ ~Exists(fs[0])
          /\ Goto(p, "w_mkdir")
          /\ UNCHANGED <<fi, size>>
       \/ /\ Done(p, 0, TRUE)
          /\ size' = 0
          /\ UNCHANGED fi
       \/ /\ Exists(fs[0])
          /\ fi' = [fi EXCEPT ![p] = Len(fs[0])]
          /\ Goto(p, "w_open")
          /\ UNCHANGED size
    /\ UNCHANGED <<disk, fixed, file, lock, op, b, idx, pre, retiring,
                   rot, history>>

\* if r.file == nil { fi, err := os.Stat(r.path) ... }
WriteStat(p) ==
    /\ pc[p] = "w_begin"
    /\ file = nil
    /\ \/ /\ ~Exists(fs[0])                 \* os.IsNotExist(err)
          /\ Goto(p, "w_mkdir")
          /\ UNCHANGED fi
       \/ /\ Done(p, 0, TRUE)               \* any other stat error
          /\ UNCHANGED fi
       \/ /\ Exists(fs[0])
          /\ fi' = [fi EXCEPT ![p] = Len(fs[0])]
          /\ Goto(p, "w_open")
    /\ UNCHANGED <<disk, fixed, rotator, lock, op, b, idx, pre, retiring,
                   rot, history>>

\* r.file != nil: the open file is reused.
WriteReuse(p) ==
    /\ pc[p] = "w_begin"
    /\ file # nil
    /\ Goto(p, "w_size")
    /\ UNCHANGED <<disk, fixed, rotator, lock, locals, rot, history>>

\* os.MkdirAll(filepath.Dir(r.path), 0755)
WriteMkdir(p) ==
    /\ pc[p] = "w_mkdir"
    /\ \/ Goto(p, "w_create")
       \/ Done(p, 0, TRUE)
    /\ UNCHANGED <<disk, fixed, rotator, lock, locals, rot, history>>

\* file, ferr := os.Create(r.path); r.file = file; r.size = 0
WriteCreate(p) ==
    /\ pc[p] = "w_create"
    /\ \/ /\ fs' = Create(fs, 0)
          /\ nOpen' = nOpen + 1
          /\ file' = 0
          /\ size' = 0
          /\ Goto(p, "w_size")
       \/ /\ Done(p, 0, TRUE)
          /\ UNCHANGED <<disk, rotator>>
    /\ UNCHANGED <<fixed, lock, locals, rot, history>>

\* A reopened file counted from zero.
SeedZero(statSize) == 0

\* r.size = fi.Size(): the size Write takes for a reopened file.
SeedSize(statSize) == statSize

\* file, err := os.OpenFile(r.path, O_WRONLY|O_APPEND); r.file = file;
\* r.size = fi.Size()
WriteOpen(p) ==
    /\ pc[p] = "w_open"
    /\ \/ /\ Exists(fs[0])
          /\ nOpen' = nOpen + 1
          /\ file' = 0
          /\ size' = SeedSize(fi[p])
          /\ resume' = [on |-> TRUE, base |-> fs, wr |-> <<>>, rots |-> 0]
          /\ Goto(p, "w_size")
       \/ /\ Done(p, 0, TRUE)
          /\ UNCHANGED <<nOpen, rotator, resume>>
    /\ UNCHANGED <<fs, fixed, lock, locals, rot, rotFailed, retry, renameFailed,
                   retired, prevRotFail, closedLast>>

\* A check that rotates once the file is full, whatever the payload.
NeedRotateWhenFull(sz, writeSize) == sz >= maxSize
\* The threshold taken as exclusive: r.size+writeSize >= r.maxSize.
NeedRotateAtLimit(sz, writeSize) == sz + writeSize >= maxSize
\* The threshold tested on the size alone: r.size > r.maxSize.
NeedRotateIgnoringWrite(sz, writeSize) == sz > maxSize

\* r.size+writeSize > r.maxSize
NeedRotate(sz, writeSize) == sz + writeSize > maxSize

\* A Write that fills the live file up to maxSize before it rotates and
\* leaves the rest of the payload for the fresh file.
WriteSizeCheckSplit(p) ==
    /\ pc[p] = "w_size"
    /\ \E w \in Payloads :
          IF NeedRotate(size, Len(w))
          THEN LET fit == IF size < maxSize THEN Min(maxSize - size, Len(w)) ELSE 0 IN
               /\ fs' = WriteThrough(fs, file, w, fit)
               /\ size' = size + fit
               /\ b' = [b EXCEPT ![p] = SubSeq(w, fit + 1, Len(w))]
               /\ rot' = [rot EXCEPT ![p] = "running"]
               /\ retiring' = [retiring EXCEPT ![p] = fs'[0]]
               /\ resume' = IF resume.on THEN [resume EXCEPT !.rots = 1] ELSE resume
               /\ Goto(p, "r_close")
          ELSE /\ b' = [b EXCEPT ![p] = w]
               /\ Goto(p, "w_write")
               /\ UNCHANGED <<fs, size, rot, retiring, resume>>
    /\ UNCHANGED <<nOpen, fixed, file, lock, op, fi, idx, pre,
                   rotFailed, retry, renameFailed, retired, prevRotFail, closedLast>>

\* writeSize := int64(len(b)); if r.size+writeSize > r.maxSize { r.rotate() }
\* b, the payload of this call, is read here for the first time.
WriteSizeCheck(p) ==
    /\ pc[p] = "w_size"
    /\ \E w \in Payloads :
          /\ b' = [b EXCEPT ![p] = w]
          /\ retry' = IF w = retry.want[0] THEN retry ELSE NoRetry
          /\ IF NeedRotate(size, Len(w))
             THEN /\ rot' = [rot EXCEPT ![p] = "running"]
                  /\ retiring' = [retiring EXCEPT ![p] = fs[0]]
                  /\ resume' = IF resume.on THEN [resume EXCEPT !.rots = 1] ELSE resume
                  /\ Goto(p, "r_close")
             ELSE /\ Goto(p, "w_write")
                  /\ UNCHANGED <<rot, retiring, resume>>
    /\ UNCHANGED <<disk, fixed, rotator, lock, op, fi, idx, pre,
                   rotFailed, renameFailed, retired, prevRotFail, closedLast>>

\* The record of the writes since the reopening, after a write of w that
\* returned error e; it is kept while base + written fits in maxSize.
Resumed(r, w, e) ==
    IF ~r.on THEN r
    ELSE IF e \/ FileSize(r.base[0]) + Len(r.wr) + Len(w) > maxSize THEN NoResume
    ELSE [r EXCEPT !.wr = @ \o w]

\* n, err := r.file.Write(b); r.size += int64(n); return n, err
\* A nil *os.File rejects the write with ErrInvalid.
WriteFile(p) ==
    /\ pc[p] = "w_write"
    /\ \E n \in 0..Len(b[p]), e \in BOOLEAN :
          /\ n < Len(b[p]) => e
          /\ file = nil => (n = 0 /\ e)
          /\ fs' = WriteThrough(fs, file, b[p], n)
          /\ size' = size + n
          /\ resume' = Resumed(resume, b[p], e)
          /\ Done(p, n, e)
    /\ UNCHANGED <<nOpen, fixed, file, lock, locals, rot, rotFailed, retry,
                   renameFailed, retired, prevRotFail, closedLast>>

\* ---- Rotator.rotate ----

\* The directory when the rotation of p began.
RotationStart(p) == [pre[p].fs EXCEPT ![0] = retiring[p]]
\* The directory after one rotation of directory old.
Shifted(old) ==
    [s \in Slots |->
        IF s = 0 THEN <<>>
        ELSE IF s > maxBackups THEN old[s]
        ELSE IF s = 1 THEN Content(old[0])
        ELSE old[s - 1]]

\* return errs.Wrap(err) out of rotate, and out of Write with 0 bytes.
RotateFail(p, inRename) ==
    /\ rot' = [rot EXCEPT ![p] = "failed"]
    /\ rotFailed' = TRUE
    /\ renameFailed' = (renameFailed \/ inRename)
    /\ retired' = <<>>
    /\ resume' = NoResume
    /\ retry' = [on |-> TRUE,
                 want |-> [Shifted(RotationStart(p)) EXCEPT ![0] = b[p]],
                 moved |-> fs \notin {RotationStart(p),
                                      Remove(RotationStart(p), maxBackups)}]
    /\ Done(p, 0, TRUE)

\* A rotate that drops r.file without closing it.
RotateCloseLeak(p) ==
    /\ pc[p] = "r_close"
    /\ file' = nil
    /\ Goto(p, "r_remove")
    /\ UNCHANGED <<disk, fixed, size, lock, locals, rot, history>>

\* A rotate that clears r.file only after a successful close.
RotateCloseKeep(p) ==
    /\ pc[p] = "r_close"
    /\ IF file # nil
       THEN /\ nOpen' = IF nOpen > 0 THEN nOpen - 1 ELSE 0
            /\ \/ /\ file' = nil
                  /\ Goto(p, "r_remove")
                  /\ UNCHANGED <<rot, rotFailed, retry, renameFailed, retired, resume>>
               \/ /\ RotateFail(p, FALSE)
                  /\ UNCHANGED file
       ELSE /\ Goto(p, "r_remove")
            /\ UNCHANGED <<file, nOpen, rot, rotFailed, retry, renameFailed, retired, resume>>
    /\ UNCHANGED <<fs, fixed, size, lock, locals, prevRotFail, closedLast>>

\* if r.file != nil { err := r.file.Close(); r.file = nil; ... }
RotateClose(p) ==
    /\ pc[p] = "r_close"
    /\ IF file # nil
       THEN /\ file' = nil
            /\ nOpen' = IF nOpen > 0 THEN nOpen - 1 ELSE 0
            /\ \/ /\ Goto(p, "r_remove")
                  /\ UNCHANGED <<rot, rotFailed, retry, renameFailed, retired, resume>>
               \/ RotateFail(p, FALSE)
       ELSE /\ Goto(p, "r_remove")
            /\ UNCHANGED <<file, nOpen, rot, rotFailed, retry, renameFailed, retired, resume>>
    /\ UNCHANGED <<fs, fixed, size, lock, locals, prevRotFail, closedLast>>

\* A rotate that removes the file one slot below the oldest backup.
RemoveTargetBelow == IF maxBackups < 1 THEN 0 ELSE maxBackups - 1
\* A rotate that removes the newest backup path-1 instead of the oldest.
RemoveTargetNewest == IF maxBackups < 1 THEN 0 ELSE 1

\* The file rotate removes first: path itself when no backups are kept,
\* else the oldest backup path-maxBackups.
RemoveTarget == IF maxBackups < 1 THEN 0 ELSE maxBackups

\* os.Remove(...); a missing file is not an error.
RotateRemove(p) ==
    /\ pc[p] = "r_remove"
    /\ \/ /\ fs' = Remove(fs, RemoveTarget)
          /\ file' = RemoveHandle(file, RemoveTarget)
          /\ idx' = [idx EXCEPT ![p] = maxBackups]
          /\ Goto(p, IF maxBackups < 1 THEN "r_create" ELSE "r_loop")
          /\ UNCHANGED <<rot, rotFailed, retry, renameFailed, retired, resume>>
       \/ /\ RotateFail(p, FALSE)
          /\ UNCHANGED <<fs, file, idx>>
    /\ UNCHANGED <<nOpen, fixed, size, lock, op, b, fi, pre, retiring,
                   prevRotFail, closedLast>>

\* oldPath taken to be the target itself.
OldPathSame(i) == i
\* oldPath one slot too far down: path-(i-2).
OldPathSkip(i) == IF i # 1 THEN i - 2 ELSE 0

\* oldPath of the rename into path-i: path-(i-1), or path itself for i = 1.
OldPath(i) == i - 1

\* for i := r.maxBackups; i > 0; i-- { os.Rename(oldPath, path-i) }
\* A missing oldPath is not an error.
RotateRename(p) ==
    /\ pc[p] = "r_loop"
    /\ idx[p] > 0
    /\ \/ /\ IF Exists(fs[OldPath(idx[p])])
             THEN /\ fs' = Rename(fs, OldPath(idx[p]), idx[p])
                  /\ file' = RenameHandle(file, OldPath(idx[p]), idx[p])
             ELSE UNCHANGED <<fs, file>>
          /\ idx' = [idx EXCEPT ![p] = @ - 1]
          /\ Goto(p, "r_loop")
          /\ UNCHANGED <<rot, rotFailed, retry, renameFailed, retired, resume>>
       \/ /\ RotateFail(p, TRUE)
          /\ UNCHANGED <<fs, file, idx>>
    /\ UNCHANGED <<nOpen, fixed, size, lock, op, b, fi, pre, retiring,
                   prevRotFail, closedLast>>

\* The loop ends at i == 0.
RotateLoopEnd(p) ==
    /\ pc[p] = "r_loop"
    /\ idx[p] = 0
    /\ Goto(p, "r_create")
    /\ UNCHANGED <<disk, fixed, rotator, lock, locals, rot, history>>

\* file, err := os.Create(r.path); r.file = file; r.size = 0
RotateCreate(p) ==
    /\ pc[p] = "r_create"
    /\ \/ /\ fs' = Create(fs, 0)
          /\ nOpen' = nOpen + 1
          /\ file' = 0
          /\ size' = 0
          /\ rot' = [rot EXCEPT ![p] = "ok"]
          /\ retired' = IF rotFailed THEN <<>>
                         ELSE Take(<<retiring[p]>> \o retired, maxBackups)
          /\ Goto(p, "w_write")
          /\ UNCHANGED <<rotFailed, retry, renameFailed, resume>>
       \/ /\ RotateFail(p, FALSE)
          /\ UNCHANGED <<disk, rotator>>
    /\ UNCHANGED <<fixed, lock, locals, prevRotFail, closedLast>>

\* ---- Rotator.Close ----

\* A caller invokes Close: r.lock.Lock() returns once the lock is free.
CloseLock(p) ==
    /\ pc[p] = "idle"
    /\ CanLock
    /\ lock' = TRUE
    /\ op' = [op EXCEPT ![p] = "Close"]
    /\ pre' = [pre EXCEPT ![p] = [fs |-> fs, file |-> file, size |-> size]]
    /\ Goto(p, "c_begin")
    /\ retry' = NoRetry
    /\ UNCHANGED <<disk, fixed, rotator, b, fi, idx, retiring, rot, rotFailed,
                   renameFailed, retired, resume, prevRotFail, closedLast>>

\* A Close that truncates the live file as it releases the handle.
CloseFileTruncate(p) ==
    /\ pc[p] = "c_begin"
    /\ file # nil
    /\ file' = nil
    /\ fs' = IF file \in Slots THEN [fs EXCEPT ![file] = <<>>] ELSE fs
    /\ nOpen' = IF nOpen > 0 THEN nOpen - 1 ELSE 0
    /\ resume' = NoResume
    /\ \E e \in BOOLEAN : Done(p, 0, e)
    /\ UNCHANGED <<fixed, size, lock, locals, rot, rotFailed, retry,
                   renameFailed, retired, prevRotFail, closedLast>>

\* if r.file != nil { file := r.file; r.file = nil; file.Close() }
CloseFile(p) ==
    /\ pc[p] = "c_begin"
    /\ file # nil
    /\ file' = nil
    /\ nOpen' = IF nOpen > 0 THEN nOpen - 1 ELSE 0
    /\ resume' = NoResume
    /\ \E e \in BOOLEAN : Done(p, 0, e)
    /\ UNCHANGED <<fs, fixed, size, lock, locals, rot, rotFailed, retry,
                   renameFailed, retired, prevRotFail, closedLast>>

\* A Close that rejects a Rotator with no open file.
CloseNoFileInvalid == TRUE

\* The error Close returns when no file is open.
CloseNoFileErr == FALSE

\* r.file == nil: return nil
CloseNoFile(p) ==
    /\ pc[p] = "c_begin"
    /\ file = nil
    /\ Done(p, 0, CloseNoFileErr)
    /\ UNCHANGED <<disk, fixed, rotator, lock, locals, rot, history>>

\* defer r.lock.Unlock(); the call returns.
Return(p) ==
    /\ pc[p] = "done"
    /\ lock' = FALSE
    /\ pc' = [pc EXCEPT ![p] = "idle"]
    /\ op' = [op EXCEPT ![p] = "none"]
    /\ b' = [b EXCEPT ![p] = <<>>]
    /\ fi' = [fi EXCEPT ![p] = 0]
    /\ idx' = [idx EXCEPT ![p] = 0]
    /\ ret' = [ret EXCEPT ![p] = NoRet]
    /\ pre' = [pre EXCEPT ![p] = NoPre]
    /\ rot' = [rot EXCEPT ![p] = "none"]
    /\ fault' = [fault EXCEPT ![p] = FALSE]
    /\ retiring' = [retiring EXCEPT ![p] = NoFile]
    /\ closedLast' = (op[p] = "Close")
    /\ prevRotFail' = IF op[p] = "Write"
                      THEN rot[p] = "failed" \/ (prevRotFail /\ fault[p])
                      ELSE prevRotFail
    /\ retry' = IF op[p] = "Write" /\ rot[p] # "failed" THEN NoRetry ELSE retry
    /\ UNCHANGED <<disk, fixed, rotator, rotFailed, renameFailed, retired,
                   resume>>

Next ==
    \E p \in Procs :
        \/ WriteLock(p)
        \/ WriteStat(p)
        \/ WriteReuse(p)
        \/ WriteMkdir(p)
        \/ WriteCreate(p)
        \/ WriteOpen(p)
        \/ WriteSizeCheck(p)
        \/ WriteFile(p)
        \/ RotateClose(p)
        \/ RotateRemove(p)
        \/ RotateRename(p)
        \/ RotateLoopEnd(p)
        \/ RotateCreate(p)
        \/ CloseLock(p)
        \/ CloseFile(p)
        \/ CloseNoFile(p)
        \/ Return(p)

Spec == Init /\ [][Next]_vars

\* ---- package safe: File ----

\* every variable of the Rotator and its directory
rotation == <<fs, nOpen, maxBackups, file, size, lock, pc, op, b, fi, idx,
              ret, pre, rot, fault, retiring, rotFailed, renameFailed,
              retired, resume, prevRotFail, closedLast, retry>>

\* The first error wins: if cerr != nil && err == nil { err = cerr }.
FirstErr(e, cerr) == IF cerr # "nil" /\ e = "nil" THEN cerr ELSE e

\* A call moves to position l with local error e.
Step(l, e) == fpc' = l /\ err' = e
\* The call is about to return e.
Returns(e) == fpc' = "done" /\ result' = e /\ err' = e

\* f.Write(p) of the embedded *os.File: one more byte in the temporary file.
FileWrite ==
    /\ fpc = "idle"
    /\ open
    /\ Len(temp) < MaxData
    /\ temp' = temp \o <<2>>
    /\ UNCHANGED <<original, committed, closed, open, fpc, fcall, err, result,
                   entry, before, renamed, aborted, removeFailed, rotation, basicAuth>>

\* Commit: if f.committed { return nil }; if f.closed { return os.ErrInvalid };
\* f.committed = true; f.closed = true
CommitCall ==
    /\ fpc = "idle"
    /\ fcall' = "Commit"
    /\ entry' = [original |-> original, temp |-> temp, committed |-> committed]
    /\ IF committed
       THEN Returns("nil") /\ UNCHANGED <<committed, closed>>
       ELSE IF closed
       THEN Returns("ErrInvalid") /\ UNCHANGED <<committed, closed>>
       ELSE /\ committed' = TRUE
            /\ closed' = TRUE
            /\ Step("m_sync", "nil")
            /\ UNCHANGED result
    /\ UNCHANGED <<original, temp, open, before, renamed, aborted,
                   removeFailed, rotation, basicAuth>>

\* err := f.Sync()
CommitSync ==
    /\ fpc = "m_sync"
    /\ \E e \in {"nil", "sync"} : Step("m_close", e)
    /\ UNCHANGED <<original, temp, committed, closed, open, fcall, result,
                   entry, before, renamed, aborted, removeFailed, rotation, basicAuth>>

\* if cerr := f.File.Close(); cerr != nil && err == nil { err = cerr }
CommitClose ==
    /\ fpc = "m_close"
    /\ open' = FALSE
    /\ \E cerr \in {"nil", "close"} : Step("m_rename", FirstErr(err, cerr))
    /\ UNCHANGED <<original, temp, committed, closed, fcall, result, entry,
                   before, renamed, aborted, removeFailed, rotation, basicAuth>>

\* A Commit that renames the temporary file whatever went wrong before.
CommitRenameAlways ==
    /\ fpc = "m_rename"
    /\ original' = temp
    /\ temp' = NoFile
    /\ renamed' = TRUE
    /\ Step("m_remove", err)
    /\ UNCHANGED <<committed, closed, open, fcall, result, entry, before,
                   aborted, removeFailed, rotation, basicAuth>>

\* name := f.Name(); if err == nil { err = os.Rename(name, f.originalName) }
CommitRename ==
    /\ fpc = "m_rename"
    /\ IF err = "nil"
       THEN \/ /\ original' = temp
               /\ temp' = NoFile
               /\ renamed' = TRUE
               /\ Step("m_remove", "nil")
            \/ /\ Step("m_remove", "rename")
               /\ UNCHANGED <<original, temp, renamed>>
       ELSE /\ Step("m_remove", err)
            /\ UNCHANGED <<original, temp, renamed>>
    /\ UNCHANGED <<committed, closed, open, fcall, result, entry, before,
                   aborted, removeFailed, rotation, basicAuth>>

\* if err != nil { if rerr := os.Remove(name); rerr != nil && err == nil
\* { err = rerr } }; return err
CommitRemove ==
    /\ fpc = "m_remove"
    /\ IF err # "nil"
       THEN /\ aborted' = TRUE
            /\ \/ temp' = NoFile /\ UNCHANGED removeFailed
               \/ removeFailed' = TRUE /\ UNCHANGED temp
       ELSE UNCHANGED <<temp, aborted, removeFailed>>
    /\ Returns(err)
    /\ UNCHANGED <<original, committed, closed, open, fcall, entry, before,
                   renamed, rotation, basicAuth>>

\* Close: if f.committed { return nil }; if f.closed { return os.ErrInvalid };
\* f.closed = true
SafeCloseCall ==
    /\ fpc = "idle"
    /\ fcall' = "Close"
    /\ entry' = [original |-> original, temp |-> temp, committed |-> committed]
    /\ IF committed
       THEN Returns("nil") /\ UNCHANGED <<closed, aborted>>
       ELSE IF closed
       THEN Returns("ErrInvalid") /\ UNCHANGED <<closed, aborted>>
       ELSE /\ closed' = TRUE
            /\ aborted' = TRUE
            /\ Step("x_close", "nil")
            /\ UNCHANGED result
    /\ UNCHANGED <<original, temp, committed, open, before, renamed,
                   removeFailed, rotation, basicAuth>>

\* err := f.File.Close()
SafeCloseFile ==
    /\ fpc = "x_close"
    /\ open' = FALSE
    /\ \E e \in {"nil", "close"} : Step("x_remove", e)
    /\ UNCHANGED <<original, temp, committed, closed, fcall, result, entry,
                   before, renamed, aborted, removeFailed, rotation, basicAuth>>

\* if rerr := os.Remove(f.Name()); rerr != nil && err == nil { err = rerr };
\* return err
SafeCloseRemove ==
    /\ fpc = "x_remove"
    /\ \/ /\ temp' = NoFile
          /\ Returns(err)
          /\ UNCHANGED removeFailed
       \/ /\ removeFailed' = TRUE
          /\ Returns(FirstErr(err, "remove"))
          /\ UNCHANGED temp
    /\ UNCHANGED <<original, committed, closed, open, fcall, entry, before,
                   renamed, aborted, rotation, basicAuth>>

\* The call returns to its caller.
SafeReturn ==
    /\ fpc = "done"
    /\ fpc' = "idle"
    /\ fcall' = "none"
    /\ err' = "nil"
    /\ result' = "nil"
    /\ entry' = NoEntry
    /\ UNCHANGED <<original, temp, committed, closed, open, before, renamed,
                   aborted, removeFailed, rotation, basicAuth>>

\* The Rotator, unused, while the File is exercised.
IdleRotator == NewRotator /\ ~Exists(fs[0]) /\ maxBackups = 0

InitSafe ==
    /\ IdleRotator
    /\ IdleAuth
    /\ \E c \in InitContents \cup {NoFile} : Created(c)

NextSafe ==
    \/ FileWrite
    \/ CommitCall
    \/ CommitSync
    \/ CommitClose
    \/ CommitRename
    \/ CommitRemove
    \/ SafeCloseCall
    \/ SafeCloseFile
    \/ SafeCloseRemove
    \/ SafeReturn

SpecSafe == InitSafe /\ [][NextSafe]_vars

\* ---- package xhttp: BasicAuth ----

\* req.BasicAuth(): user, password and ok; ok only for the Basic scheme
\* with credentials that decode to user:password.
BasicAuthOf(h) ==
    IF h.scheme = "Basic" /\ h.wellFormed
    THEN [user |-> h.user, pw |-> h.pw, ok |-> TRUE]
    ELSE [user |-> 0, pw |-> 0, ok |-> FALSE]

\* A check that asks lookup for the password under another realm.
PassesOtherRealm(h) ==
    LET c == BasicAuthOf(h) IN
    c.ok /\ \E r \in Realms \ {realm} : c.pw = lookup[<<c.user, r>>]

\* if user, pw, ok := req.BasicAuth(); ok {
\*     if pw == hw.auth.lookup(user, hw.auth.realm) { ... } }
Passes(h) ==
    LET c == BasicAuthOf(h) IN
    c.ok /\ c.pw = lookup[<<c.user, realm>>]

\* fmt.Sprintf(`Basic realm="%s"`, hw.auth.realm)
Challenge(r) == "Basic realm=\"" \o r \o "\""
\* WriteHTTPStatus(w, code) writes the status code to the response.
WriteHTTPStatus(code) == code

\* A request reaches the wrapper: ServeHTTP(w, req) is called.
Request ==
    /\ hpc = "idle"
    /\ \E h \in Headers : req' = h
    /\ invoked' = FALSE
    /\ wwwAuthenticate' = ""
    /\ status' = 0
    /\ hpc' = "serve"
    /\ UNCHANGED <<realm, lookup, rotation, safeFile>>

\* The credentials are checked.
Authenticate ==
    /\ hpc = "serve"
    /\ hpc' = IF Passes(req) THEN "handler" ELSE "deny"
    /\ UNCHANGED <<realm, lookup, req, invoked, wwwAuthenticate, status,
                   rotation, safeFile>>

\* hw.handler.ServeHTTP(w, req); return. The handler answers as it likes.
Handler ==
    /\ hpc = "handler"
    /\ invoked' = TRUE
    /\ \E st \in {200, 404} : status' = st
    /\ hpc' = "done"
    /\ UNCHANGED <<realm, lookup, req, wwwAuthenticate, rotation, safeFile>>

\* w.Header().Set("WWW-Authenticate", ...);
\* WriteHTTPStatus(w, http.StatusUnauthorized)
Unauthorized ==
    /\ hpc = "deny"
    /\ wwwAuthenticate' = Challenge(realm)
    /\ status' = WriteHTTPStatus(401)
    /\ hpc' = "done"
    /\ UNCHANGED <<realm, lookup, req, invoked, rotation, safeFile>>

\* ServeHTTP returns; the response goes out.
Respond ==
    /\ hpc = "done"
    /\ hpc' = "idle"
    /\ req' = NoHeader
    /\ invoked' = FALSE
    /\ wwwAuthenticate' = ""
    /\ status' = 0
    /\ UNCHANGED <<realm, lookup, rotation, safeFile>>

InitAuth ==
    /\ IdleRotator
    /\ Created(NoFile)
    /\ \E rl \in Realms, lk \in [Users \X Realms -> Passwords] : Wrapped(rl, lk)

NextAuth ==
    \/ Request
    \/ Authenticate
    \/ Handler
    \/ Unauthorized
    \/ Respond

SpecAuth == InitAuth /\ [][NextAuth]_vars

\* ---- the states the properties speak about ----

\* The caller is inside Write or Close, between Lock() and Unlock().
InCall(p) == pc[p] # "idle"
\* The caller is about to return from call o; (n, err) is in ret.
Returning(p, o) == pc[p] = "done" /\ op[p] = o
\* No call is part-way through its steps.
Quiet == \A p \in Procs : pc[p] \in {"idle", "done"}
\* No rotation is in progress.
NoRotation == \A p \in Procs : rot[p] # "running"
\* The bytes the Write of p wrote.
Written(p) == SubSeq(b[p], 1, ret[p].n)
\* The backups are path-1..path-k for some k <= maxBackups.
GapFree ==
    \A s \in 1..MaxBackupsCfg :
        Exists(fs[s]) => (s <= maxBackups /\ (s > 1 => Exists(fs[s - 1])))

\* ---- properties ----

\* C1: the lock serializes Write and Close: at most one caller is between
\* Lock() and Unlock() at any time, and the lock is held exactly while one
\* is, so the steps of two calls never interleave.
C1_Serialized ==
    /\ \A p, q \in Procs : (InCall(p) /\ InCall(q)) => p = q
    /\ lock <=> \E p \in Procs : InCall(p)
\* One caller is in the middle of a rotation, after another caller has
\* returned from a Close; every other caller is outside the lock.
C1_Witness ==
    \E p \in Procs :
        /\ pc[p] = "r_loop"
        /\ idx[p] = 1
        /\ closedLast
        /\ \A q \in Procs \ {p} : pc[q] = "idle"

\* C2: no split writes: when a Write of a payload of at most maxSize bytes
\* returns, the bytes it wrote are the tail of the live file and of no
\* other file: without a rotation the directory is the one before the call
\* with the bytes appended to the live file; after a rotation the live file
\* holds exactly the bytes written and the backups are the shifted old
\* files; after a failed rotation nothing was written anywhere.
C2_NoSplitWrites ==
    \A p \in Procs :
        (Returning(p, "Write") /\ Len(b[p]) <= maxSize) =>
            LET old == pre[p].fs IN
            CASE rot[p] = "none" ->
                     /\ fs[0] \in {old[0], Content(old[0]) \o Written(p)}
                     /\ \A s \in 1..MaxBackupsCfg : fs[s] = old[s]
              [] rot[p] = "ok" ->
                     fs = [Shifted(old) EXCEPT ![0] = Written(p)]
              [] OTHER ->
                     /\ ret[p].n = 0
                     /\ \A s \in Slots :
                            fs[s] \in {NoFile, <<>>} \cup {old[t] : t \in Slots}
\* A Write that rotated a non-empty live file away and wrote its payload.
C2_Witness ==
    \E p \in Procs :
        /\ Returning(p, "Write")
        /\ rot[p] = "ok"
        /\ Len(b[p]) = maxSize
        /\ ret[p].n = Len(b[p])
        /\ FileSize(pre[p].fs[0]) > 0
        /\ maxBackups >= 1

\* C3: backup ordering: starting without backups and with maxBackups >= 1,
\* as long as every rotation has succeeded, after k rotations the backups
\* are exactly path-1..path-min(k, maxBackups) and path-i holds the content
\* the live file had just before the i-th most recent rotation; older
\* content is gone.
C3_BackupOrdering ==
    (maxBackups >= 1 /\ ~rotFailed /\ NoRotation) =>
        /\ Len(retired) <= maxBackups
        /\ \A s \in 1..MaxBackupsCfg :
               fs[s] = IF s <= Len(retired) THEN retired[s] ELSE NoFile
\* A rotation beyond the first maxBackups = 2 has succeeded: it found
\* path-2 present, two backups with different contents remain and the
\* content path-2 had is in no file.
C3_Witness ==
    \E p \in Procs :
        /\ Returning(p, "Write")
        /\ rot[p] = "ok"
        /\ maxBackups = 2
        /\ ~rotFailed
        /\ Exists(pre[p].fs[2])
        /\ Len(retired) = 2
        /\ Len(retired[1]) # Len(retired[2])
        /\ \A s \in Slots : fs[s] # pre[p].fs[2]

C5_RotationRetry ==
    \A p \in Procs :
        Returning(p, "Write") =>
            /\ rot[p] = "failed" =>
                   /\ ret[p] = [n |-> 0, err |-> TRUE]
                   /\ file = nil
                   /\ nOpen = 0
                   /\ \A s \in Slots :
                          fs[s] \in {NoFile, <<>>} \cup {pre[p].fs[t] : t \in Slots}
            /\ (prevRotFail /\ ~fault[p]) =>
                   /\ ret[p] = [n |-> Len(b[p]), err |-> FALSE]
                   /\ file = 0
                   /\ nOpen = 1
                   /\ Exists(fs[0])
                   /\ Len(fs[0]) >= Len(b[p])
                   /\ SubSeq(fs[0], Len(fs[0]) - Len(b[p]) + 1, Len(fs[0])) = b[p]
\* The Write after a failed rotation succeeds with a non-empty payload.
C5_Witness ==
    \E p \in Procs :
        /\ Returning(p, "Write")
        /\ prevRotFail
        /\ ~fault[p]
        /\ Len(b[p]) > 0

\* C6: size accounting: between the steps of calls, whenever the Rotator
\* holds an open file, the handle is on the file at path and r.size is
\* that file's length; a Write that reused the open file without rotating
\* has grown r.size by the count it returns.
C6_SizeAccounting ==
    /\ (Quiet /\ file # nil) =>
           (file = 0 /\ Exists(fs[0]) /\ size = Len(fs[0]))
    /\ \A p \in Procs :
           (Returning(p, "Write") /\ rot[p] = "none" /\ pre[p].file # nil) =>
               size = pre[p].size + ret[p].n
\* A Write reopened a non-empty file and wrote only part of its payload.
C6_Witness ==
    \E p \in Procs :
        /\ Returning(p, "Write")
        /\ pre[p].file = nil
        /\ FileSize(pre[p].fs[0]) > 0
        /\ ret[p].err
        /\ ret[p].n > 0
        /\ file # nil

\* C7: resume without rotation: after an existing file of S bytes was
\* reopened with no handle open, while the successful Writes since then
\* total K bytes with S + K <= maxSize, no rotation has been started, no
\* backup has changed and the live file is the original S bytes followed
\* by the K bytes written.
C7_ResumeWithoutRotation ==
    (Quiet /\ resume.on
           /\ FileSize(resume.base[0]) + Len(resume.wr) <= maxSize) =>
        /\ resume.rots = 0
        /\ fs = [resume.base EXCEPT ![0] = @ \o resume.wr]
\* A reopened non-empty file has been filled up to exactly maxSize.
C7_Witness ==
    /\ Quiet
    /\ resume.on
    /\ FileSize(resume.base[0]) > 0
    /\ Len(resume.wr) > 0
    /\ FileSize(resume.base[0]) + Len(resume.wr) = maxSize

\* C8 as claimed: after any Write call returns, the live file at path is at
\* most maxSize bytes long.
C8_LiveFileBounded ==
    \A p \in Procs : Returning(p, "Write") => FileSize(fs[0]) <= maxSize
\* C8 as amended: after a Write of a payload of at most maxSize bytes
\* returns with the file open (it did not fail before its write step), the
\* live file at path is at most maxSize bytes long.
C8_LiveFileBoundedForFittingPayload ==
    \A p \in Procs :
        (Returning(p, "Write") /\ file # nil /\ Len(b[p]) <= maxSize) =>
            FileSize(fs[0]) <= maxSize
\* A successful Write has brought the live file to exactly maxSize.
C8_Witness ==
    \E p \in Procs :
        /\ Returning(p, "Write")
        /\ ~ret[p].err
        /\ Len(b[p]) > 0
        /\ rot[p] = "none"
        /\ FileSize(pre[p].fs[0]) > 0
        /\ FileSize(fs[0]) = maxSize

\* C9: zero-backup mode: with maxBackups = 0 no backup file exists in any
\* state, and when a rotation completes the live file exists, is empty and
\* is the open file; the previous content is in no file.
C9_ZeroBackupMode ==
    maxBackups = 0 =>
        /\ \A s \in 1..MaxBackupsCfg : ~Exists(fs[s])
        /\ \A p \in Procs :
               (pc[p] = "w_write" /\ rot[p] = "ok") =>
                   (fs[0] = <<>> /\ file = 0 /\ size = 0)
\* A rotation without backups has just discarded a non-empty live file.
C9_Witness ==
    /\ maxBackups = 0
    /\ \E p \in Procs :
           pc[p] = "w_write" /\ rot[p] = "ok" /\ FileSize(retiring[p]) > 0

C11_CloseFrame ==
    \A p \in Procs :
        /\ Returning(p, "Close") =>
                (fs = pre[p].fs /\ file = nil /\ nOpen = 0)
        /\ (Returning(p, "Write") /\ closedLast /\ pre[p].file = nil
                /\ Exists(pre[p].fs[0]) /\ rot[p] = "none") =>
                fs = [pre[p].fs EXCEPT ![0] = pre[p].fs[0] \o Written(p)]
\* A Close returns after releasing the handle of a non-empty live file,
\* with a backup in the directory.
C11_Witness ==
    \E p \in Procs :
        /\ Returning(p, "Close")
        /\ pre[p].file = 0
        /\ FileSize(fs[0]) > 0
        /\ Exists(fs[1])

\* ---- properties of safe.File ----

\* The File is between calls or about to return from one.
SafeAtRest == fpc \in {"idle", "done"}
\* The caller is about to return from method m of the File.
SafeReturning(m) == fpc = "done" /\ fcall = m

\* C12 as stated: once Close has run without a Commit, or a Commit has
\* failed, the file at the original name is the one that was there when the
\* File was created, the temporary file is gone when the call returns, and
\* no later call changes either.
C12_OriginalUntouched ==
    aborted => (original = before /\ (SafeAtRest => temp = NoFile))
\* C12, amended: once Close has run without a Commit, or a Commit has
\* failed, the file at the original name is the one that was there when the
\* File was created, and no later call changes it; when the call returns
\* the temporary file is gone unless os.Remove failed on it, and it is
\* never renamed onto the original.
C12_OriginalUntouchedTempRemovedUnlessRemoveFails ==
    aborted =>
        /\ original = before
        /\ ~renamed
        /\ SafeAtRest => (temp = NoFile <=> ~removeFailed)
\* A Commit that wrote data over an existing original fails at the rename,
\* removes the temporary file and returns the rename error.
C12_Witness ==
    /\ SafeReturning("Commit")
    /\ result = "rename"
    /\ Exists(before)
    /\ FileSize(entry.temp) > 0
    /\ temp = NoFile
    /\ aborted

\* ---- properties of the Rotator, continued ----

\* The Write of p retries the Write that failed in its rotation: the same
\* payload, the next call after it, and no file-system call of it fails.
Retries(p) ==
    /\ Returning(p, "Write")
    /\ retry.on
    /\ rot[p] # "failed"
    /\ ~fault[p]
    /\ b[p] = retry.want[0]

C14_NoOverwrite ==
    \A p \in Procs :
        /\ (pc[p] = "r_loop" /\ idx[p] > 0) => ~Exists(fs[idx[p]])
        /\ (rot[p] = "running" /\ maxBackups > 0) =>
               \A s \in 0..(maxBackups - 1) :
                   fs[s] = RotationStart(p)[s] \/ fs[s + 1] = RotationStart(p)[s]
        /\ (rot[p] # "none" /\ maxBackups > 0) =>
               \A s \in 0..(maxBackups - 1) :
                   Exists(RotationStart(p)[s]) =>
                       \/ fs[s + 1] = RotationStart(p)[s]
                       \/ (fs[s] = RotationStart(p)[s] /\ rot[p] # "ok")
\* After an earlier rotation was aborted by a rename error, a rotation
\* that began with path-2 present and path-1 missing has removed path-2,
\* found nothing to rename into it, and is about to rename the live file
\* into the vacant path-1.
C14_Witness ==
    \E p \in Procs :
        /\ pc[p] = "r_loop"
        /\ idx[p] = 1
        /\ renameFailed
        /\ Exists(pre[p].fs[2])
        /\ ~Exists(pre[p].fs[1])
        /\ Exists(fs[0])
        /\ ~Exists(fs[1])

\* C15: the rotation trigger is exact: with the file open, a Write rotates
\* if and only if r.size plus the payload length exceeds maxSize; seen from
\* the files, a Write that returns without a rotation found the live file
\* short enough to take the payload within maxSize bytes, and a Write that
\* rotated found it too long; so a live file of exactly maxSize bytes is
\* not rotated until the next Write with a non-empty payload.
C15_RotationTriggerExact ==
    \A p \in Procs :
        /\ (pc[p] = "w_write" /\ rot[p] = "none") =>
               size + Len(b[p]) <= maxSize
        /\ rot[p] = "running" => size + Len(b[p]) > maxSize
        /\ (Returning(p, "Write") /\ rot[p] = "none" /\ file \in Slots) =>
               FileSize(fs[file]) - ret[p].n + Len(b[p]) <= maxSize
        /\ rot[p] # "none" => FileSize(retiring[p]) + Len(b[p]) > maxSize
\* A Write of one byte returns after rotating a live file that an earlier
\* Write had filled to exactly maxSize bytes.
C15_Witness ==
    \E p \in Procs :
        /\ Returning(p, "Write")
        /\ rot[p] = "ok"
        /\ pre[p].file = 0
        /\ pre[p].size = maxSize
        /\ FileSize(retiring[p]) = maxSize
        /\ Len(b[p]) = 1
        /\ ret[p].n = 1

\* C16: at most one open file handle: in every state, whatever opens,
\* closes and rotations have failed, the Rotator has at most one handle
\* opened and not yet closed, and it has one exactly when r.file is set.
C16_AtMostOneHandle ==
    /\ nOpen <= 1
    /\ nOpen = 1 <=> file # nil
\* A Write has rotated after an earlier rotation failed: the handle of the
\* new live file is the only one open.
C16_Witness ==
    \E p \in Procs :
        /\ Returning(p, "Write")
        /\ rot[p] = "ok"
        /\ rotFailed
        /\ pre[p].file = 0
        /\ file = 0
        /\ nOpen = 1

\* C17: a stat failure changes nothing: the step of a Write that goes from
\* its beginning straight to its return is the failed os.Stat (an error
\* other than not-exist, with no file open); the Write then returns
\* (0, error), and r.file (still nil), r.size, the live file and every
\* backup are what they were.
C17_StatFailureChangesNothing ==
    [][\A p \in Procs :
          (pc[p] = "w_begin" /\ pc'[p] = "done") =>
              /\ file = nil
              /\ ret'[p] = [n |-> 0, err |-> TRUE]
              /\ UNCHANGED <<fs, nOpen, file, size>>]_vars
\* A Write returns an error without having obtained a FileInfo although a
\* non-empty live file and a backup exist: the stat failed; no file is
\* open and r.size still holds the size reached before the last Close.
C17_Witness ==
    \E p \in Procs :
        /\ Returning(p, "Write")
        /\ pre[p].file = nil
        /\ fi[p] = 0
        /\ FileSize(fs[0]) > 0
        /\ Exists(fs[1])
        /\ ret[p] = [n |-> 0, err |-> TRUE]
        /\ file = nil
        /\ size > 0
        /\ fs = pre[p].fs

\* The Write of p began with no file in the directory and no file open,
\* as the first Write into an empty directory does.
IntoEmptyDirectory(p) ==
    /\ op[p] = "Write"
    /\ pre[p].file = nil
    /\ \A s \in Slots : ~Exists(pre[p].fs[s])

\* C18 as stated: a Write of a non-empty payload into an empty directory,
\* however long the payload, retires no empty live file: if it rotates
\* with backups kept, the file it retires is non-empty, and it leaves no
\* empty backup.
C18_NoEmptyBackup ==
    \A p \in Procs :
        (IntoEmptyDirectory(p) /\ Len(b[p]) > 0) =>
            /\ (rot[p] # "none" /\ maxBackups > 0) => FileSize(retiring[p]) > 0
            /\ \A s \in 1..MaxBackupsCfg : Exists(fs[s]) => FileSize(fs[s]) > 0

\* ---- properties of safe.File, continued ----

\* C19 as stated: over any sequence of Commit and Close calls on one File,
\* a Commit returns nil only if the temporary file has been renamed onto
\* the original name, which then holds the written data; a Close after a
\* successful Commit returns nil and changes nothing.
C19_CommitSuccessMeansRenamed ==
    /\ (SafeReturning("Commit") /\ result = "nil") =>
           /\ renamed
           /\ temp = NoFile
           /\ original = IF entry.committed THEN entry.original ELSE entry.temp
    /\ (SafeReturning("Close") /\ renamed) =>
           /\ result = "nil"
           /\ original = entry.original
           /\ temp = entry.temp

\* ---- properties of BasicAuth ----

====
